---- MODULE Spec2Model ----
(***************************************************************************)
(* Model of src/index.js: an Express server on the Node.js event loop.     *)
(* One action is one run-to-completion callback of the event loop: the     *)
(* 1000 ms interval callback, the synchronous part of a route handler, the *)
(* continuation of an async handler after an await, or the "close" event   *)
(* of a request.  Wall-clock time is abstracted: timers of one duration    *)
(* fire in the order they were armed, timers of different durations and    *)
(* request arrivals interleave freely.  Timestamps and log lines are       *)
(* outputs that steer nothing and are left out.  Microtasks (the           *)
(* continuation after an await) run in the callback that resolved them.    *)
(***************************************************************************)
EXTENDS Integers, Sequences, FiniteSets, TLC

\* Bounds of the model.
MaxTicks == 2
\* MaxReqs bounds the number of /sse and /poll requests together.
MaxReqs == 2

Conns == 1..MaxReqs
Polls == 1..MaxReqs

VARIABLES
    currentValue,   \* let currentValue (line 11)
    listeners,      \* dataSource's listener array for "update": Seq of connections
    alive,          \* the process is running (no uncaught exception so far)
    timers5,        \* pending 5 ms timers of simulateRedisLookup, in arming order
    timers20,       \* pending 20 ms timers of /poll, in arming order
    ssePc,          \* position of each /sse handler
    sseId,          \* /sse: const requestId (line 71)
    pollId,         \* /poll: const requestId (line 52)
    destroyed,      \* the connection's socket is closed (client gone)
    closeHandler,   \* the request has the "close" listener of line 101 attached
    out,            \* per connection, the res.write calls made so far
    pollPc,         \* position of each /poll handler
    pollData,       \* /poll: const data (line 53)
    pollResp,       \* /poll: the body passed to res.json (line 58)
    pollGone,       \* /poll: the client has disconnected
    last,           \* the callback that ran last and, for a synchronous route, its response
    regAt,          \* history: currentValue when the listener was registered
    closedAt        \* history: currentValue when the close handler ran (line 103)

vars == <<currentValue, listeners, alive, timers5, timers20, ssePc, sseId, pollId,
          destroyed, closeHandler, out, pollPc, pollData, pollResp, pollGone, last,
          regAt, closedAt>>

None == -1

\* Number of /sse and /poll requests received so far.
Arrived ==
    Cardinality({c \in Conns : ssePc[c] # "idle"})
        + Cardinality({p \in Polls : pollPc[p] # "idle"})

\* The id the middleware gives a request (line 31): Date.now() followed by
\* random characters, taken to be a token no other request gets.
RequestId(kind, n) == <<kind, n>>

\* req.requestId before the middleware has run, and the response of a
\* request that has not responded.
NoId == <<"none", 0>>
NoResp == [value |-> None, request_id |-> NoId, ok |-> FALSE]

\* Request paths: a path names a base and is written exactly as the base,
\* with one trailing slash added ("/poll/"), or in upper case ("/POLL").
PathForms == {"exact", "slash", "upper"}
Paths ==
    {[base |-> b, form |-> f] : b \in {"/metrics", "/poll", "/sse"}, f \in PathForms}
        \cup {[base |-> "/", form |-> "exact"], [base |-> "/other", form |-> "exact"]}
NoPath == [base |-> "", form |-> "exact"]

\* The routes in the order they are registered (lines 41, 51, 70, 110).
Routes == <<"/metrics", "/poll", "/sse", "/">>
Handlers == <<"Metrics", "Poll", "Sse", "Root">>

\* A matcher that compares the path with the route character by character.
ExpressMatchStrict(route, path) == path.base = route /\ path.form = "exact"

\* Whether a route of app.get matches a path: the app is created with
\* express() and no settings (line 6), so matching ignores letter case and
\* a trailing slash.
ExpressMatch(route, path) == path.base = route

\* The handler a request is dispatched to: the first matching route, else
\* the final app.use (line 626).
Dispatch(path) ==
    LET M == {i \in 1..Len(Routes) : ExpressMatch(Routes[i], path)}
    IN IF M = {} THEN "NotFound"
       ELSE Handlers[CHOOSE i \in M : \A j \in M : i <= j]

\* A callback that is not the arrival of a request.
Step(op) ==
    [op |-> op, status |-> 0, value |-> None, path |-> NoPath, request_id |-> NoId,
     body |-> ""]

\* The arrival of a request: the middleware has given it its id (line 36),
\* then the handler runs.  status 0: no complete response yet.
Arrival(op, path, id, status, body, value) ==
    [op |-> op, status |-> status, value |-> value, path |-> path, request_id |-> id,
     body |-> body]

Init ==
    /\ currentValue = 0
    /\ listeners = <<>>
    /\ alive = TRUE
    /\ timers5 = <<>>
    /\ timers20 = <<>>
    /\ ssePc = [c \in Conns |-> "idle"]
    /\ sseId = [c \in Conns |-> NoId]
    /\ pollId = [p \in Polls |-> NoId]
    /\ destroyed = [c \in Conns |-> FALSE]
    /\ closeHandler = [c \in Conns |-> FALSE]
    /\ out = [c \in Conns |-> <<>>]
    /\ pollPc = [p \in Polls |-> "idle"]
    /\ pollData = [p \in Polls |-> None]
    /\ pollResp = [p \in Polls |-> NoResp]
    /\ pollGone = [p \in Polls |-> FALSE]
    /\ last = Step("Init")
    /\ regAt = [c \in Conns |-> None]
    /\ closedAt = [c \in Conns |-> None]

----------------------------------------------------------------------------
\* Helpers

\* An increment by two.
IncrementTwice(v) == v + 2

\* currentValue++ (line 15)
Increment(v) == v + 1

\* A lookup that resolves with the value read one tick earlier.
SimulateRedisLookupStale == [value |-> IF currentValue > 0 THEN currentValue - 1 ELSE 0]

\* What simulateRedisLookup's timer callback resolves with (line 24).
SimulateRedisLookup == [value |-> currentValue]

\* res.write that takes the id from a variable shared by all requests, which
\* holds the id of the /sse request that arrived last.
ResWriteSharedId(c, kind, v) ==
    LET arrived == {d \in Conns : ssePc[d] # "idle"}
        newest == CHOOSE d \in arrived : \A e \in arrived : e <= d
    IN [rec |-> [kind |-> kind, value |-> v, request_id |-> sseId[newest],
                 ok |-> ~destroyed[c]], threw |-> FALSE]

\* res.write that throws on a destroyed response.
ResWriteThrows(c, kind, v) ==
    [rec |-> [kind |-> kind, value |-> v, request_id |-> sseId[c],
              ok |-> ~destroyed[c]], threw |-> destroyed[c]]

\* res.write on connection c (lines 79, 89): the call is made either way;
\* on a destroyed response the chunk is dropped and the call returns false.
\* It never throws.
ResWrite(c, kind, v) ==
    [rec |-> [kind |-> kind, value |-> v, request_id |-> sseId[c],
              ok |-> ~destroyed[c]], threw |-> FALSE]

\* Emit with the first listener of the array skipped.
RECURSIVE EmitSkipFirst(_, _, _)
EmitSkipFirst(ls, v, acc) ==
    IF ls = <<>> THEN [out |-> acc, threw |-> FALSE]
    ELSE IF Len(ls) = 1 THEN [out |-> acc, threw |-> FALSE]
    ELSE LET c == ls[2]
         IN EmitSkipFirst(Tail(ls), v,
                [acc EXCEPT ![c] = Append(@, [kind |-> "tick", value |-> v,
                                               request_id |-> sseId[c],
                                               ok |-> ~destroyed[c]])])

\* dataSource.emit("update", ev) (line 16): the listeners of a copy of the
\* listener array are called in order; an exception thrown by a listener
\* propagates out of emit and the remaining listeners are not called.
\* Returns the write records appended per connection and whether it threw.
RECURSIVE Emit(_, _, _)
Emit(ls, v, acc) ==
    IF ls = <<>> THEN [out |-> acc, threw |-> FALSE]
    ELSE LET c == Head(ls)
             w == ResWrite(c, "tick", v)
         IN IF w.threw
            THEN [out |-> acc, threw |-> TRUE]
            ELSE Emit(Tail(ls), v, [acc EXCEPT ![c] = Append(@, w.rec)])

\* on() that adds the listener twice.
AddListenerTwice(ls, c) == ls \o <<c, c>>

\* dataSource.on("update", updateListener) (line 98): appended to the array.
AddListener(ls, c) == Append(ls, c)

\* Index of the last occurrence of c in ls; for an absent c the index of the
\* last element, as splice(indexOf(c), 1) would take it.
LastIndexOrLast(ls, c) ==
    LET S == {i \in 1..Len(ls) : ls[i] = c}
    IN IF S = {} THEN Len(ls) ELSE CHOOSE i \in S : \A j \in S : j <= i

\* Index of the last occurrence of c in ls, 0 if absent.
LastIndexOf(ls, c) ==
    LET S == {i \in 1..Len(ls) : ls[i] = c}
    IN IF S = {} THEN 0 ELSE CHOOSE i \in S : \A j \in S : j <= i

\* removeListener that drops the oldest listener, whichever it is.
RemoveOldest(ls, c) == IF ls = <<>> THEN ls ELSE Tail(ls)

\* dataSource.removeListener("update", updateListener) (line 102): removes
\* the most recently added instance, no-op if absent.
RemoveListener(ls, c) ==
    LET k == LastIndexOf(ls, c)
    IN IF k = 0 THEN ls
       ELSE [i \in 1..(Len(ls) - 1) |-> IF i < k THEN ls[i] ELSE ls[i + 1]]

ListenerSet == {listeners[i] : i \in 1..Len(listeners)}

----------------------------------------------------------------------------
\* Actions

\* A ticker that increments at once and publishes the event in its next
\* run: the event of value n goes out when the counter is made n + 1.
TickDefersEmit ==
    /\ alive
    /\ currentValue < MaxTicks
    /\ LET r == IF currentValue > 0 THEN Emit(listeners, currentValue, out)
                ELSE [out |-> out, threw |-> FALSE]
       IN /\ currentValue' = Increment(currentValue)
          /\ out' = r.out
          /\ alive' = ~r.threw
    /\ last' = Step("Tick")
    /\ UNCHANGED <<listeners, timers5, timers20, ssePc, sseId, pollId, destroyed,
                   closeHandler, pollPc, pollData, pollResp, pollGone, regAt, closedAt>>

\* Tick with the event built before the increment.
TickEmitOld ==
    /\ alive
    /\ currentValue < MaxTicks
    /\ LET r == Emit(listeners, currentValue, out)
       IN /\ currentValue' = Increment(currentValue)
          /\ out' = r.out
          /\ alive' = ~r.threw
    /\ last' = Step("Tick")
    /\ UNCHANGED <<sseId, pollId, listeners, timers5, timers20, ssePc, destroyed,
                   closeHandler, pollPc, pollData, pollResp, regAt, closedAt,
                   pollGone>>

\* A ticker that runs only while no request is suspended on a timer.
TickWhenIdle ==
    /\ alive
    /\ currentValue < MaxTicks
    /\ timers5 = <<>> /\ timers20 = <<>>
    /\ LET v == Increment(currentValue)
           r == Emit(listeners, v, out)
       IN /\ currentValue' = v
          /\ out' = r.out
          /\ alive' = ~r.threw
    /\ last' = Step("Tick")
    /\ UNCHANGED <<listeners, timers5, timers20, ssePc, sseId, pollId, destroyed,
                   closeHandler, pollPc, pollData, pollResp, pollGone, regAt, closedAt>>

\* setInterval callback (lines 14-17)
Tick ==
    /\ alive
    /\ currentValue < MaxTicks
    /\ LET v == Increment(currentValue)
           r == Emit(listeners, v, out)
       IN /\ currentValue' = v
          /\ out' = r.out
          /\ alive' = ~r.threw
    /\ last' = Step("Tick")
    /\ UNCHANGED <<sseId, pollId, listeners, timers5, timers20, ssePc, destroyed,
                   closeHandler, pollPc, pollData, pollResp, regAt, closedAt,
                   pollGone>>

\* Metrics that reports a value read once at start-up.
MetricsCached ==
    /\ alive
    /\ \E path \in Paths :
         /\ Dispatch(path) = "Metrics"
         /\ last' = Arrival("Metrics", path, RequestId("Metrics", 0), 200, "json", 0)
    /\ UNCHANGED <<currentValue, listeners, alive, timers5, timers20, ssePc, sseId,
                   pollId, destroyed, closeHandler, out, pollPc, pollData, pollResp,
                   pollGone, regAt, closedAt>>

\* GET /metrics (lines 30-38, 41-48)
Metrics ==
    /\ alive
    /\ \E path \in Paths :
         /\ Dispatch(path) = "Metrics"
         /\ last' = Arrival("Metrics", path, RequestId("Metrics", 0), 200, "json", currentValue)
    /\ UNCHANGED <<sseId, pollId, currentValue, listeners, alive, timers5,
                   timers20, ssePc, destroyed, closeHandler, out, pollPc, pollData,
                   pollResp, regAt, closedAt, pollGone>>

\* GET / (lines 30-38, 110-623)
Root ==
    /\ alive
    /\ \E path \in Paths :
         /\ Dispatch(path) = "Root"
         /\ last' = Arrival("Root", path, RequestId("Root", 0), 200, "html", None)
    /\ UNCHANGED <<sseId, pollId, currentValue, listeners, alive, timers5,
                   timers20, ssePc, destroyed, closeHandler, out, pollPc, pollData,
                   pollResp, regAt, closedAt, pollGone>>

\* any other path (lines 30-38, 626-628)
NotFound ==
    /\ alive
    /\ \E path \in Paths :
         /\ Dispatch(path) = "NotFound"
         /\ last' = Arrival("NotFound", path, RequestId("NotFound", 0), 404, "Not found", None)
    /\ UNCHANGED <<sseId, pollId, currentValue, listeners, alive, timers5,
                   timers20, ssePc, destroyed, closeHandler, out, pollPc, pollData,
                   pollResp, regAt, closedAt, pollGone>>

\* GET /poll up to the first await (lines 30-38, 51-53, 22-25): the
\* middleware assigns the id, simulateRedisLookup arms its 5 ms timer.
PollArrive(p) ==
    /\ alive
    /\ pollPc[p] = "idle"
    /\ \A q \in Polls : q < p => pollPc[q] # "idle"
    /\ Arrived < MaxReqs
    /\ pollId' = [pollId EXCEPT ![p] = RequestId("poll", p)]
    /\ pollPc' = [pollPc EXCEPT ![p] = "lookup"]
    /\ timers5' = Append(timers5, <<"poll", p>>)
    /\ \E path \in Paths :
         /\ Dispatch(path) = "Poll"
         /\ last' = Arrival("PollArrive", path, RequestId("poll", p), 0, "", None)
    /\ UNCHANGED <<sseId, currentValue, listeners, alive, timers20, ssePc,
                   destroyed, closeHandler, out, pollData, pollResp, regAt,
                   closedAt, pollGone>>

\* /poll: the 5 ms timer fires, the lookup resolves and the handler goes on
\* to arm the 20 ms timer (lines 23-25, 53-56)
PollLookupDone(p) ==
    /\ alive
    /\ timers5 # <<>>
    /\ Head(timers5) = <<"poll", p>>
    /\ timers5' = Tail(timers5)
    /\ pollData' = [pollData EXCEPT ![p] = SimulateRedisLookup.value]
    /\ pollPc' = [pollPc EXCEPT ![p] = "delay"]
    /\ timers20' = Append(timers20, p)
    /\ last' = Step("PollLookupDone")
    /\ UNCHANGED <<sseId, pollId, currentValue, listeners, alive, ssePc, destroyed,
                   closeHandler, out, pollResp, regAt, closedAt, pollGone>>

\* PollRespond that reads currentValue when it responds.
PollRespondFresh(p) ==
    /\ alive
    /\ timers20 # <<>>
    /\ Head(timers20) = p
    /\ timers20' = Tail(timers20)
    /\ pollResp' = [pollResp EXCEPT ![p] = [value |-> currentValue, request_id |-> pollId[p],
                                           ok |-> ~pollGone[p]]]
    /\ pollPc' = [pollPc EXCEPT ![p] = "done"]
    /\ last' = Step("PollRespond")
    /\ UNCHANGED <<sseId, pollId, currentValue, listeners, alive, timers5, ssePc,
                   destroyed, closeHandler, out, pollData, regAt, closedAt,
                   pollGone>>

\* /poll: the 20 ms timer fires and the response is sent (lines 56-66)
PollRespond(p) ==
    /\ alive
    /\ timers20 # <<>>
    /\ Head(timers20) = p
    /\ timers20' = Tail(timers20)
    /\ pollResp' = [pollResp EXCEPT ![p] = [value |-> pollData[p], request_id |-> pollId[p], ok |-> ~pollGone[p]]]
    /\ pollPc' = [pollPc EXCEPT ![p] = "done"]
    /\ last' = Step("PollRespond")
    /\ UNCHANGED <<sseId, pollId, currentValue, listeners, alive, timers5, ssePc,
                   destroyed, closeHandler, out, pollData, regAt, closedAt,
                   pollGone>>

\* SseArrive that registers the listener before the await.
SseArriveRegisters(c) ==
    /\ alive
    /\ ssePc[c] = "idle"
    /\ \A d \in Conns : d < c => ssePc[d] # "idle"
    /\ Arrived < MaxReqs
    /\ sseId' = [sseId EXCEPT ![c] = RequestId("sse", c)]
    /\ ssePc' = [ssePc EXCEPT ![c] = "lookup"]
    /\ timers5' = Append(timers5, <<"sse", c>>)
    /\ listeners' = AddListener(listeners, c)
    /\ \E path \in Paths :
         /\ Dispatch(path) = "Sse"
         /\ last' = Arrival("SseArrive", path, RequestId("sse", c), 0, "", None)
    /\ UNCHANGED <<pollId, currentValue, alive, timers20, destroyed, closeHandler,
                   out, pollPc, pollData, pollResp, regAt, closedAt, pollGone>>

\* GET /sse up to the await (lines 30-38, 70-78, 22-25): the middleware
\* assigns the id, the headers are set, simulateRedisLookup arms its timer.
SseArrive(c) ==
    /\ alive
    /\ ssePc[c] = "idle"
    /\ \A d \in Conns : d < c => ssePc[d] # "idle"
    /\ Arrived < MaxReqs
    /\ sseId' = [sseId EXCEPT ![c] = RequestId("sse", c)]
    /\ ssePc' = [ssePc EXCEPT ![c] = "lookup"]
    /\ timers5' = Append(timers5, <<"sse", c>>)
    /\ \E path \in Paths :
         /\ Dispatch(path) = "Sse"
         /\ last' = Arrival("SseArrive", path, RequestId("sse", c), 0, "", None)
    /\ UNCHANGED <<pollId, currentValue, listeners, alive, timers20, destroyed,
                   closeHandler, out, pollPc, pollData, pollResp, regAt, closedAt,
                   pollGone>>

\* /sse: the 5 ms timer fires, the lookup resolves, and the handler writes
\* the initial event, registers updateListener and attaches the close
\* handler (lines 23-25, 78-106).  Nothing checks whether the client is
\* still connected.
SseLookupDone(c) ==
    /\ alive
    /\ timers5 # <<>>
    /\ Head(timers5) = <<"sse", c>>
    /\ timers5' = Tail(timers5)
    /\ LET w == ResWrite(c, "init", SimulateRedisLookup.value)
       IN out' = [out EXCEPT ![c] = Append(@, w.rec)]
    /\ listeners' = AddListener(listeners, c)
    /\ closeHandler' = [closeHandler EXCEPT ![c] = TRUE]
    /\ ssePc' = [ssePc EXCEPT ![c] = "attached"]
    /\ regAt' = [regAt EXCEPT ![c] = currentValue]
    /\ last' = Step("SseLookupDone")
    /\ UNCHANGED <<sseId, pollId, currentValue, alive, timers20, destroyed, pollPc,
                   pollData, pollResp, closedAt, pollGone>>

\* The client of an /sse request disconnects: the request emits "close"
\* once, to the handlers attached at that moment (lines 101-106).
ReqClose(c) ==
    /\ alive
    /\ ssePc[c] # "idle"
    /\ ~destroyed[c]
    /\ destroyed' = [destroyed EXCEPT ![c] = TRUE]
    /\ listeners' = IF closeHandler[c] THEN RemoveListener(listeners, c) ELSE listeners
    /\ closedAt' = IF closeHandler[c] THEN [closedAt EXCEPT ![c] = currentValue]
                   ELSE closedAt
    /\ last' = Step("ReqClose")
    /\ UNCHANGED <<sseId, pollId, currentValue, alive, timers5, timers20, ssePc,
                   closeHandler, out, pollPc, pollData, pollResp, regAt, pollGone>>

\* PollClose that cancels the timers of the request.
PollCloseCancels(p) ==
    /\ alive
    /\ pollPc[p] \in {"lookup", "delay"}
    /\ ~pollGone[p]
    /\ pollGone' = [pollGone EXCEPT ![p] = TRUE]
    /\ timers5' = SelectSeq(timers5, LAMBDA t : t # <<"poll", p>>)
    /\ timers20' = SelectSeq(timers20, LAMBDA q : q # p)
    /\ last' = Step("PollClose")
    /\ UNCHANGED <<currentValue, listeners, alive, ssePc, sseId, pollId, destroyed,
                   closeHandler, out, pollPc, pollData, pollResp, regAt, closedAt>>

\* The client of a /poll request disconnects before the response: the
\* handler (lines 51-67) listens for nothing, its timers stay armed.
PollClose(p) ==
    /\ alive
    /\ pollPc[p] \in {"lookup", "delay"}
    /\ ~pollGone[p]
    /\ pollGone' = [pollGone EXCEPT ![p] = TRUE]
    /\ last' = Step("PollClose")
    /\ UNCHANGED <<currentValue, listeners, alive, timers5, timers20, ssePc, sseId,
                   pollId, destroyed, closeHandler, out, pollPc, pollData, pollResp,
                   regAt, closedAt>>

Next ==
    \/ Tick
    \/ Metrics
    \/ Root
    \/ NotFound
    \/ \E p \in Polls : PollArrive(p)
    \/ \E p \in Polls : PollLookupDone(p)
    \/ \E p \in Polls : PollRespond(p)
    \/ \E p \in Polls : PollClose(p)
    \/ \E c \in Conns : SseArrive(c)
    \/ \E c \in Conns : SseLookupDone(c)
    \/ \E c \in Conns : ReqClose(c)

Spec == Init /\ [][Next]_vars

----------------------------------------------------------------------------
\* The blocking variant of the server: the Delay Simulator busy-waits for
\* its 5 ms on the event loop's thread instead of arming a timer, so the
\* lookup is no suspension point and the handler runs on in the callback
\* that received the request.

\* What the blocking Delay Simulator returns when its busy-wait ends.
SimulateRedisLookupBlocking == [value |-> currentValue]

\* A blocking /poll arrival that suspends on a timer after all.
PollArriveSuspends(p) == PollArrive(p)

\* GET /poll with the blocking lookup: id, lookup, arming of the 20 ms timer.
PollArriveBlocking(p) ==
    /\ alive
    /\ pollPc[p] = "idle"
    /\ \A q \in Polls : q < p => pollPc[q] # "idle"
    /\ Arrived < MaxReqs
    /\ pollId' = [pollId EXCEPT ![p] = RequestId("poll", p)]
    /\ pollData' = [pollData EXCEPT ![p] = SimulateRedisLookupBlocking.value]
    /\ pollPc' = [pollPc EXCEPT ![p] = "delay"]
    /\ timers20' = Append(timers20, p)
    /\ \E path \in Paths :
         /\ Dispatch(path) = "Poll"
         /\ last' = Arrival("PollArrive", path, RequestId("poll", p), 0, "", None)
    /\ UNCHANGED <<currentValue, listeners, alive, timers5, ssePc, sseId, destroyed,
                   closeHandler, out, pollResp, pollGone, regAt, closedAt>>

\* GET /sse with the blocking lookup: id, headers, lookup, initial event,
\* registration and close handler in the one callback.
SseArriveBlocking(c) ==
    /\ alive
    /\ ssePc[c] = "idle"
    /\ \A d \in Conns : d < c => ssePc[d] # "idle"
    /\ Arrived < MaxReqs
    /\ sseId' = [sseId EXCEPT ![c] = RequestId("sse", c)]
    /\ out' = [out EXCEPT ![c] =
                  Append(@, [kind |-> "init", value |-> SimulateRedisLookupBlocking.value,
                             request_id |-> RequestId("sse", c), ok |-> TRUE])]
    /\ listeners' = AddListener(listeners, c)
    /\ closeHandler' = [closeHandler EXCEPT ![c] = TRUE]
    /\ ssePc' = [ssePc EXCEPT ![c] = "attached"]
    /\ regAt' = [regAt EXCEPT ![c] = currentValue]
    /\ \E path \in Paths :
         /\ Dispatch(path) = "Sse"
         /\ last' = Arrival("SseArrive", path, RequestId("sse", c), 0, "", None)
    /\ UNCHANGED <<currentValue, alive, timers5, timers20, pollId, destroyed, pollPc,
                   pollData, pollResp, pollGone, closedAt>>

NextBlocking ==
    \/ Tick
    \/ Metrics
    \/ Root
    \/ NotFound
    \/ \E p \in Polls : PollArriveBlocking(p)
    \/ \E p \in Polls : PollRespond(p)
    \/ \E p \in Polls : PollClose(p)
    \/ \E c \in Conns : SseArriveBlocking(c)
    \/ \E c \in Conns : ReqClose(c)

SpecBlocking == Init /\ [][NextBlocking]_vars

----------------------------------------------------------------------------
\* A running event loop fires every armed timer: the interval (line 17), the
\* 5 ms timers (line 25) and the 20 ms timers (line 56).
\* The timers of one duration fire in arming order, so at most one
\* callback of each list is due at a time.
Timer5Fires ==
    \/ \E p \in Polls : PollLookupDone(p)
    \/ \E c \in Conns : SseLookupDone(c)

Timer20Fires == \E p \in Polls : PollRespond(p)

FairSpec ==
    /\ Init /\ [][Next]_vars
    /\ WF_vars(Tick)
    /\ WF_vars(Timer5Fires)
    /\ WF_vars(Timer20Fires)

----------------------------------------------------------------------------
\* Properties

\* Number of times c occurs in the listener array.
Registrations(c) == Cardinality({i \in 1..Len(listeners) : listeners[i] = c})

LastOut(c) == out[c][Len(out[c])]

\* The values of the tick events written on c, in the order written.
RECURSIVE TickValues(_)
TickValues(s) ==
    IF s = <<>> THEN <<>>
    ELSE IF Head(s).kind = "tick" THEN <<Head(s).value>> \o TickValues(Tail(s))
    ELSE TickValues(Tail(s))

\* C1: a tick that fires with K listeners registered makes exactly K event
\* writes, one on each registered connection and none elsewhere, and each
\* written event carries the new (post-increment) value of currentValue.
C1_TickWritesOncePerListener ==
    [][last'.op = "Tick" =>
         /\ Cardinality({c \in Conns : out'[c] # out[c]}) = Len(listeners)
         /\ \A c \in Conns :
              IF c \in ListenerSet
              THEN out'[c] = Append(out[c], [kind |-> "tick", value |-> currentValue',
                                             request_id |-> sseId[c],
                                             ok |-> ~destroyed[c]])
              ELSE out'[c] = out[c]]_vars

C1_Witness ==
    /\ last.op = "Tick"
    /\ Len(listeners) = 2
    /\ \A c \in ListenerSet :
         /\ Registrations(c) = 1
         /\ LastOut(c).kind = "tick"
         /\ LastOut(c).value = currentValue

\* The ticks a connection is due: those fired from its registration until its
\* listener was removed by its close, or until now while it is registered.
DueTicks(c) ==
    IF regAt[c] = None THEN <<>>
    ELSE LET hi == IF c \in ListenerSet THEN currentValue ELSE closedAt[c]
         IN [i \in 1..(hi - regAt[c]) |-> regAt[c] + i]

C3_DisconnectedIsDeregistered ==
    \A c \in Conns : (destroyed[c] /\ ssePc[c] = "attached") => c \notin ListenerSet

\* The listener array without the entries of c.
Without(ls, c) == SelectSeq(ls, LAMBDA d : d # c)

\* C4: closing a connection that is streaming removes exactly its listener:
\* the array gets one shorter, the other listeners stay, in their order, and
\* currentValue is unchanged.
C4_CloseRemovesExactlyOne ==
    [][\A c \in Conns :
         (~destroyed[c] /\ destroyed'[c] /\ c \in ListenerSet) =>
            /\ Len(listeners') = Len(listeners) - 1
            /\ listeners' = Without(listeners, c)
            /\ currentValue' = currentValue]_vars

C4_Witness ==
    /\ last.op = "ReqClose"
    /\ \E c, d \in Conns :
         /\ destroyed[c] /\ c \notin ListenerSet
         /\ \E i \in 1..Len(out[c]) : out[c][i].kind = "tick" /\ out[c][i].ok
         /\ ~destroyed[d] /\ listeners = <<d>>
         /\ regAt[c] > regAt[d]

\* C5: every step leaves currentValue unchanged or adds exactly 1 to it, and
\* only the ticker's step changes it; so it never decreases from 0.
C5_CounterOnlyTicks ==
    [][/\ currentValue' # currentValue =>
            (currentValue' = currentValue + 1 /\ last'.op = "Tick")
       /\ last'.op = "Tick" => currentValue' = currentValue + 1
       /\ currentValue >= 0]_vars

C5_Witness ==
    /\ last.op = "Tick"
    /\ currentValue = 2
    /\ \E p \in Polls : pollPc[p] = "done"
    /\ \E c \in Conns : destroyed[c]

\* C6: when the write of a tick event on one listener's connection fails
\* (the connection is closed), the same event is still written on every
\* other registered connection, and the ticker goes on ticking: the process
\* is still running after the tick.
C6_FailedWriteIsIsolated ==
    [][\A c \in ListenerSet :
         (last'.op = "Tick" /\ destroyed[c]) =>
            /\ \A d \in ListenerSet \ {c} :
                 out'[d] = Append(out[d], [kind |-> "tick", value |-> currentValue',
                                           request_id |-> sseId[d],
                                           ok |-> ~destroyed[d]])
            /\ alive']_vars

C6_Witness ==
    /\ last.op = "Tick"
    /\ alive
    /\ \E c, d \in Conns :
         /\ listeners = <<c, d>>
         /\ destroyed[c] /\ ~destroyed[d]
         /\ \A i \in 1..Len(out[c]) : ~out[c][i].ok
         /\ TickValues(out[c]) = <<1, 2>>
         /\ TickValues(out[d]) = <<1, 2>>
         /\ \A i \in 1..Len(out[d]) : out[d][i].ok

\* C7 (as claimed): a connection on which a write has failed is removed from
\* the listener array, so no later tick is delivered to it.
C7_FailedWriteDeregisters ==
    \A c \in Conns :
        (\E i \in 1..Len(out[c]) : ~out[c][i].ok) => c \notin ListenerSet

\* Lifecycle of a streaming connection.
SseState(c) ==
    IF ssePc[c] = "idle" THEN "NONE"
    ELSE IF destroyed[c] THEN "CLOSED"
    ELSE IF ssePc[c] = "attached" THEN "STREAMING"
    ELSE "OPEN"

StateRank(st) ==
    IF st = "NONE" THEN 0 ELSE IF st = "OPEN" THEN 1 ELSE IF st = "STREAMING" THEN 2 ELSE 3

\* C8 (as claimed): a connection's lifecycle only moves forward along
\* OPEN -> STREAMING -> CLOSED, and once it is CLOSED it stays CLOSED, is not
\* registered in the listener array and has no further event written on it.
C8_ClosedIsTerminal ==
    [][\A c \in Conns :
         /\ StateRank(SseState(c)') >= StateRank(SseState(c))
         /\ SseState(c) = "CLOSED" =>
               /\ SseState(c)' = "CLOSED"
               /\ c \notin ListenerSet => c \notin ListenerSet'
               /\ out'[c] = out[c]]_vars

\* C9: the first event written on a connection is the initial snapshot and
\* every later one is a tick event; a connection is in the listener array
\* only once its snapshot is written, so a tick that fires while the
\* connection awaits its lookup writes nothing on it.
C9_SnapshotFirst ==
    \A c \in Conns :
        /\ c \in ListenerSet => out[c] # <<>>
        /\ ssePc[c] = "lookup" => out[c] = <<>>
        /\ \A i \in 1..Len(out[c]) : (out[c][i].kind = "init") <=> (i = 1)

C9_Witness ==
    /\ last.op = "Tick"
    /\ \E c, d \in Conns :
         /\ ssePc[c] = "lookup" /\ out[c] = <<>>
         /\ Len(out[d]) = 3
         /\ out[d][1].kind = "init" /\ out[d][1].value = 0
         /\ TickValues(out[d]) = <<1, 2>>

\* C10: a /poll runs lookup, then the 20 ms delay, then the response; the
\* value in the response is currentValue as read when the lookup completed,
\* hence at most currentValue when the response is sent.
C10_PollOrderAndValue ==
    [][\A p \in Polls :
         /\ pollPc'[p] # pollPc[p] =>
               <<pollPc[p], pollPc'[p]>> \in
                   {<<"idle", "lookup">>, <<"lookup", "delay">>, <<"delay", "done">>}
         /\ (pollPc[p] = "lookup" /\ pollPc'[p] = "delay") =>
               (pollData'[p] = currentValue /\ pollResp'[p] = NoResp)
         /\ (pollPc[p] = "delay" /\ pollPc'[p] = "done") =>
               /\ pollResp'[p].value = pollData[p]
               /\ pollResp'[p].value <= currentValue'
         /\ pollPc'[p] = pollPc[p] => pollResp'[p] = pollResp[p]]_vars

C10_Witness ==
    /\ last.op = "PollRespond"
    /\ currentValue = 2
    /\ \E p \in Polls : pollPc[p] = "done" /\ pollResp[p].value = 1
\* C11: under fair firing of the timers every /poll that was dispatched gets
\* its response, whatever else is in flight and whether or not its client
\* has disconnected; it gets it once: a poll that has responded stays so and
\* its response is never replaced.
C11_PollRunsToCompletion ==
    /\ \A p \in Polls : (pollPc[p] # "idle") ~> (pollPc[p] = "done")
    /\ [][\A p \in Polls :
            /\ pollPc[p] = "done" => (pollPc'[p] = "done" /\ pollResp'[p] = pollResp[p])
            /\ pollPc[p] # "done" /\ pollPc'[p] # "done" => pollResp'[p] = NoResp]_vars

C11_Witness ==
    /\ last.op = "PollRespond"
    /\ \E p, q \in Polls :
         /\ pollPc[p] = "done" /\ pollGone[p] /\ pollResp[p].value = 1
         /\ pollPc[q] = "lookup"
\* C12: a /metrics response carries currentValue as it is when the request
\* is handled, and handling it changes neither currentValue nor the
\* listener array.
C12_MetricsFreshRead ==
    [][last'.op = "Metrics" =>
         /\ last'.status = 200
         /\ last'.value = currentValue
         /\ currentValue' = currentValue
         /\ listeners' = listeners]_vars

C12_Witness ==
    /\ last.op = "Metrics"
    /\ last.value = 2
    /\ listeners # <<>>
    /\ \E p \in Polls : pollPc[p] = "done" /\ pollResp[p].value < 2

\* C13: every event written on a streaming connection, snapshot and tick
\* events alike, carries that connection's request id, every /poll response
\* the id of its own request, and never the id of another request.
C13_OwnRequestId ==
    /\ \A c \in Conns : \A i \in 1..Len(out[c]) :
          /\ out[c][i].request_id = sseId[c]
          /\ sseId[c] = RequestId("sse", c)
          /\ \A d \in Conns \ {c} : out[c][i].request_id # sseId[d]
          /\ \A p \in Polls : out[c][i].request_id # pollId[p]
    /\ \A p \in Polls : pollPc[p] = "done" =>
          /\ pollResp[p].request_id = pollId[p]
          /\ pollId[p] = RequestId("poll", p)
          /\ \A q \in Polls \ {p} : pollResp[p].request_id # pollId[q]
          /\ \A c \in Conns : pollResp[p].request_id # sseId[c]

C13_Witness ==
    /\ Len(out[1]) = 3
    /\ \E p \in Polls : pollPc[p] = "done"
\* C14: a publish delivers to the listeners registered when it starts: a
\* connection unregistered before it gets nothing from it and causes no
\* error, and the publish itself leaves the registry alone.  Under every
\* interleaving of registrations, closes and ticks the listener array is a
\* well-formed set: no listener twice, every connection that registered and
\* has not run its close handler is in it, and no other.
C14_RegistryWellFormed ==
    [][/\ \A i, j \in 1..Len(listeners') : listeners'[i] = listeners'[j] => i = j
       /\ {listeners'[i] : i \in 1..Len(listeners')}
             = {c \in Conns : ssePc'[c] = "attached" /\ closedAt'[c] = None}
       /\ last'.op = "Tick" =>
             /\ listeners' = listeners
             /\ \A c \in Conns \ ListenerSet : out'[c] = out[c]
             /\ alive']_vars

C14_Witness ==
    /\ last.op = "Tick"
    /\ currentValue = 2
    /\ \E c, d \in Conns :
         /\ closedAt[c] = 1 /\ TickValues(out[c]) = <<1>>
         /\ listeners = <<d>> /\ TickValues(out[d]) = <<1, 2>>

\* C15: unregistering a connection that is not in the listener array leaves
\* the array as it is, and unregistering a connection twice gives what
\* unregistering it once gives.
C15_UnregisterIdempotent ==
    \A c \in Conns :
        /\ c \notin ListenerSet => RemoveListener(listeners, c) = listeners
        /\ RemoveListener(RemoveListener(listeners, c), c) = RemoveListener(listeners, c)

C15_Witness ==
    /\ last.op = "ReqClose"
    /\ Len(listeners) = 1
    /\ \E c \in Conns : closedAt[c] # None /\ c \notin ListenerSet
\* The operation that the handler of a route starts with.
FirstOp(base) ==
    IF base = "/" THEN "Root"
    ELSE IF base = "/metrics" THEN "Metrics"
    ELSE IF base = "/poll" THEN "PollArrive"
    ELSE IF base = "/sse" THEN "SseArrive"
    ELSE "NotFound"

\* C17 (as claimed): routing is by exact path: the paths "/", "/metrics",
\* "/poll" and "/sse" written exactly so get their handlers, every other
\* path gets the 404 response with the plain body "Not found", and every
\* request has its id before it is dispatched.
C17_ExactPathRouting ==
    last.path # NoPath =>
        /\ last.request_id # NoId
        /\ IF last.path.form = "exact"
           THEN last.op = FirstOp(last.path.base)
           ELSE last.op = "NotFound"
        /\ last.op = "NotFound" => (last.status = 404 /\ last.body = "Not found")

\* C17 (amended): routing is by path, compared without regard to letter
\* case or one trailing slash: "/", "/metrics", "/poll" and "/sse" get their
\* handlers, a path that is none of them gets the 404 response with the plain
\* body "Not found", and every request has its id before it is dispatched.
C17_PathRouting ==
    last.path # NoPath =>
        /\ last.request_id # NoId
        /\ last.op = FirstOp(last.path.base)
        /\ last.op = "NotFound" => (last.status = 404 /\ last.body = "Not found")
        /\ last.op # "NotFound" => last.status # 404

C17_Witness ==
    /\ last.op = "PollArrive"
    /\ last.path = [base |-> "/poll", form |-> "slash"]
    /\ last.request_id = RequestId("poll", 2)
    /\ pollPc[2] = "lookup"
\* C18: the ticker is never paused: in every reachable state, whatever polls
\* are suspended in the lookup or in the 20 ms delay and whatever streams are
\* open, a tick is enabled, and under fair firing of the timers it fires;
\* and while requests are suspended a further /poll can be accepted.
C18_TickerNeverStarved ==
    /\ [](currentValue < MaxTicks => ENABLED Tick)
    /\ \A n \in 0..(MaxTicks - 1) : (currentValue = n) ~> (currentValue = n + 1)
    /\ [](Arrived < MaxReqs => ENABLED (\E p \in Polls : PollArrive(p)))

C18_Witness ==
    /\ last.op = "Tick"
    /\ currentValue = 2
    /\ pollPc[1] = "delay" /\ pollData[1] = 0
    /\ pollPc[2] = "lookup"

\* C19: with the blocking Delay Simulator the lookup is no suspension point:
\* no request is ever found waiting inside it, a poll passes through it in
\* the step it arrives in, reading currentValue there, and in that step
\* nothing else moves: no tick, no event write, no other request.  So polls
\* pass through the simulator strictly one after another.
C19_BlockingLookupSerialises ==
    [][/\ timers5' = <<>>
       /\ \A p \in Polls : pollPc'[p] # "lookup"
       /\ \A c \in Conns : ssePc'[c] # "lookup"
       /\ \A p \in Polls :
            (pollPc[p] = "idle" /\ pollPc'[p] # "idle") =>
               /\ pollPc'[p] = "delay"
               /\ pollData'[p] = currentValue
               /\ currentValue' = currentValue
               /\ out' = out
               /\ \A q \in Polls \ {p} :
                    pollPc'[q] = pollPc[q] /\ pollData'[q] = pollData[q]]_vars

C19_Witness ==
    /\ last.op = "PollArrive"
    /\ pollPc[1] = "delay" /\ pollData[1] = 0
    /\ pollPc[2] = "delay" /\ pollData[2] = 1

\* C20: the values on a streaming connection run on without gap or repeat:
\* the snapshot carries the value currentValue has when the connection is
\* registered, and the tick events after it carry the next values in order.
C20_NoGapAtRegistration ==
    \A c \in Conns :
        /\ out[c] # <<>> => out[c][1].value = regAt[c]
        /\ \A i \in 1..Len(out[c]) : out[c][i].value = out[c][1].value + (i - 1)

C20_Witness ==
    /\ last.op = "Tick"
    /\ \E c, d \in Conns :
         /\ Len(out[c]) = 3 /\ Len(out[d]) = 2
         /\ out[c][1].value = 0 /\ TickValues(out[c]) = <<1, 2>>
         /\ out[d][1].value = 1 /\ out[d][2].value = 2

\* Connection c was in the listener array when the tick that made the
\* counter n fired: registered before it, and not removed before it.
RegisteredAtTick(c, n) ==
    /\ regAt[c] # None
    /\ regAt[c] < n
    /\ (c \in ListenerSet \/ closedAt[c] >= n)

\* The tick event of value n has been written on every connection that was
\* registered when tick n fired (value 0 is the initial value, not a tick).
Delivered(n) ==
    n >= 1 =>
        \A c \in Conns :
            RegisteredAtTick(c, n) =>
                \E i \in 1..Len(out[c]) : out[c][i].kind = "tick" /\ out[c][i].value = n

\* C21: the increment of currentValue and the writing of its tick event on
\* all registered connections are one indivisible step: whenever /metrics
\* reads the counter, a /poll lookup resolves with it, or a /poll response
\* reports it, and the value is n, every connection that was registered when
\* tick n fired has already been written the event of value n; and the
\* ticker's step itself ends with the event of the new value written.
C21_TickIsIndivisible ==
    [][/\ last'.op = "Metrics" => Delivered(last'.value)
       /\ \A p \in Polls :
            (pollPc[p] = "lookup" /\ pollPc'[p] = "delay") => Delivered(pollData'[p])
       /\ \A p \in Polls :
            (pollPc[p] = "delay" /\ pollPc'[p] = "done") => Delivered(pollResp'[p].value)
       /\ last'.op = "Tick" =>
            \A c \in ListenerSet :
                \E i \in 1..Len(out'[c]) :
                    out'[c][i].kind = "tick" /\ out'[c][i].value = currentValue']_vars

C21_Witness ==
    /\ last.op = "Metrics" /\ last.value = 2
    /\ \E p \in Polls : pollPc[p] = "delay" /\ pollData[p] = 2
    /\ \E c \in Conns :
         /\ c \in ListenerSet /\ regAt[c] = 0
         /\ TickValues(out[c]) = <<1, 2>>
====
